---- MODULE Spec2Model ----
(***************************************************************************)
(* State-machine model of the Bingo spatial prefetcher                     *)
(* (src/src/prefetcher/pref_bingo.c).                                      *)
(*                                                                         *)
(* The three host callbacks (hit, miss, eviction) are the actions.  The    *)
(* two associative stores are functions whose DOMAIN is the set of keys    *)
(* present.  A footprint (accessed[64]) is the set of block indices whose  *)
(* flag is TRUE.  Addr is an unsigned 64-bit integer in the source; every  *)
(* address and instruction address drawn below is far below 2^31, so no    *)
(* sum or shift of the model wraps.                                        *)
(***************************************************************************)
EXTENDS Integers, Sequences, FiniteSets, TLC

VARIABLES
  History_Table,  \* Hash_Table History_Table : pc_plus_offset -> Bingo_Table_Line
  Aux_Storage,    \* Hash_Table Aux_Storage   : page_number    -> Aux_Entry
  ul1req,         \* requests handed to pref_addto_ul1req_queue by the latest callback
  last,           \* the latest callback: its arguments and what it did
  calls,          \* number of callbacks so far
  epoch,          \* per page evicted since its latest hit or miss: how many evictions
                  \* since, and whether the first of them found a live record
  observed,       \* per live page: block indices of all its hits and misses since creation
  tracked,        \* per live page: block indices of its hits and bucket-less misses
  scen,           \* progress of the run through the learn-then-predict scenario
  twin,           \* stores and requests of a second run that receives the same
                  \* callbacks with processor ids of its own
  wide            \* one evaluation of the emitter's line-index arithmetic at full width

vars == <<History_Table, Aux_Storage, ul1req, last, calls, epoch, observed, tracked,
          scen, twin, wide>>

(***************************************************************************)
(* Program constants                                                       *)
(***************************************************************************)
PAGE_SHIFT == 12
PAGE_SIZE == 4096
BLOCK_SHIFT == 6
NUM_BLOCKS == 64
LINE_ENTRIES == 16
DCACHE_LINE_SIZE == 64

(***************************************************************************)
(* Bounds and inputs of the model                                          *)
(***************************************************************************)
MaxCalls == 5
MaxFill == 18
MaxPair == 4

Procs == {0, 1}

\* The accesses of the modelled program, <<line address, instruction address>>:
\* instruction 100 touches pages 1 and 2, instruction 8228 page 1 and
\* instruction 8292 page 0.  Committing page 1 (trigger 8228) at line 4096 and
\* page 0 (trigger 8292) at line 0 both give signature 8292, which is also the
\* signature of a miss of instruction 100 at 8192 and of 8292 at 0.
Accesses == {<<4096, 100>>, <<4160, 100>>, <<8192, 100>>,
             <<4096, 8228>>, <<0, 8292>>, <<64, 8292>>}

Addrs == {acc[1] : acc \in Accesses}

NoSlot == -1

(***************************************************************************)
(* Unsigned arithmetic                                                     *)
(***************************************************************************)
Shr(a, n) == a \div (2 ^ n)
Shl(a, n) == a * (2 ^ n)

\* (uns) x : the low 32 bits, assembled from two 16-bit halves
ToUns(x) == ((x \div 65536) % 65536) * 65536 + (x % 65536)

\* LOG2(DCACHE_LINE_SIZE)
RECURSIVE LOG2(_)
LOG2(n) == IF n <= 1 THEN 0 ELSE 1 + LOG2(n \div 2)

(***************************************************************************)
(* Helpers: page number and indices                                        *)
(***************************************************************************)
bingo_get_page_number(addr) == Shr(addr, PAGE_SHIFT)

bingo_get_page_base_from_number(page_num) == Shl(page_num, PAGE_SHIFT)

bingo_get_block_index(addr) == Shr(addr % PAGE_SIZE, BLOCK_SHIFT)

(***************************************************************************)
(* Records                                                                 *)
(***************************************************************************)
\* memset(&new_entry, 0, sizeof(new_entry))
ZeroAux == [trigger_addr |-> 0, pc |-> 0, footprint |-> {}]

ZeroHist == [pc_plus_address |-> 0, pc_plus_offset |-> 0, entry |-> ZeroAux]

\* memset(&new_line, 0, sizeof(new_line))
ZeroLine ==
  [line |-> [i \in 0 .. LINE_ENTRIES - 1 |-> ZeroHist],
   usage_order |-> [i \in 0 .. LINE_ENTRIES - 1 |-> 0],
   current_size |-> 0]

(***************************************************************************)
(* The associative store utility (libs/hash_lib)                           *)
(***************************************************************************)
hash_table_present(table, key) == key \in DOMAIN table

hash_table_access(table, key) == table[key]

hash_table_access_replace(table, key, data) ==
  [k \in DOMAIN table \cup {key} |-> IF k = key THEN data ELSE table[k]]

hash_table_access_delete(table, key) ==
  [k \in DOMAIN table \ {key} |-> table[k]]

hash_table_count(table) == Cardinality(DOMAIN table)

(***************************************************************************)
(* Bounded-LRU bucket                                                      *)
(***************************************************************************)
\* add_entry putting the new slot behind the occupied positions of
\* usage_order instead of in front of them
add_entry_append(table_line, new_entry) ==
  LET used0 == table_line.current_size
      index_to_replace ==
        IF used0 < LINE_ENTRIES THEN used0
        ELSE table_line.usage_order[LINE_ENTRIES - 1]
  IN [line |-> [table_line.line EXCEPT ![index_to_replace] = new_entry],
      usage_order |->
        IF used0 < LINE_ENTRIES
        THEN [table_line.usage_order EXCEPT ![used0] = index_to_replace]
        ELSE table_line.usage_order,
      current_size |-> IF used0 < LINE_ENTRIES THEN used0 + 1 ELSE used0]

\* add_entry without the shift loop: the new index is stored at the front only
add_entry_no_shift(table_line, new_entry) ==
  LET used0 == table_line.current_size
      index_to_replace ==
        IF used0 < LINE_ENTRIES THEN used0
        ELSE table_line.usage_order[LINE_ENTRIES - 1]
  IN [line |-> [table_line.line EXCEPT ![index_to_replace] = new_entry],
      usage_order |-> [table_line.usage_order EXCEPT ![0] = index_to_replace],
      current_size |-> IF used0 < LINE_ENTRIES THEN used0 + 1 ELSE used0]

\* add_entry replacing the front of usage_order (the most recently used slot)
add_entry_evict_mru(table_line, new_entry) ==
  LET used0 == table_line.current_size
      index_to_replace ==
        IF used0 < LINE_ENTRIES THEN used0
        ELSE table_line.usage_order[0]
      used == IF used0 < LINE_ENTRIES THEN used0 + 1 ELSE LINE_ENTRIES
  IN [line |-> [table_line.line EXCEPT ![index_to_replace] = new_entry],
      usage_order |->
        [i \in 0 .. LINE_ENTRIES - 1 |->
           IF i = 0 THEN index_to_replace
           ELSE IF i <= used - 1 THEN table_line.usage_order[i - 1]
           ELSE table_line.usage_order[i]],
      current_size |-> IF used0 < LINE_ENTRIES THEN used0 + 1 ELSE used0]

add_entry(table_line, new_entry) ==
  LET used0 == table_line.current_size
      index_to_replace ==
        IF used0 < LINE_ENTRIES THEN used0
        ELSE table_line.usage_order[LINE_ENTRIES - 1]
      used == IF used0 < LINE_ENTRIES THEN used0 + 1 ELSE LINE_ENTRIES
  IN [line |-> [table_line.line EXCEPT ![index_to_replace] = new_entry],
      usage_order |->
        [i \in 0 .. LINE_ENTRIES - 1 |->
           IF i = 0 THEN index_to_replace
           ELSE IF i <= used - 1 THEN table_line.usage_order[i - 1]
           ELSE table_line.usage_order[i]],
      current_size |-> IF used0 < LINE_ENTRIES THEN used0 + 1 ELSE used0]

\* the first loop of mark_used_by_address without its break: the highest slot
\* index holding the key
found_index_of_last(table_line, pc_plus_address) ==
  LET hits == {i \in 0 .. table_line.current_size - 1 :
                 table_line.line[i].pc_plus_address = pc_plus_address}
  IN IF hits = {} THEN NoSlot
     ELSE CHOOSE i \in hits : \A j \in hits : i >= j

\* first loop of mark_used_by_address: lowest slot index holding the key
found_index_of(table_line, pc_plus_address) ==
  LET hits == {i \in 0 .. table_line.current_size - 1 :
                 table_line.line[i].pc_plus_address = pc_plus_address}
  IN IF hits = {} THEN NoSlot
     ELSE CHOOSE i \in hits : \A j \in hits : i <= j

\* mark_used_by_address exchanging the found position with the front instead
\* of shifting the positions before it
mark_used_by_address_exchange(table_line, pc_plus_address) ==
  LET found_index == found_index_of(table_line, pc_plus_address)
      pos == {i \in 0 .. table_line.current_size - 1 :
                table_line.usage_order[i] = found_index}
  IN IF found_index = NoSlot \/ pos = {} THEN table_line
     ELSE LET p == CHOOSE i \in pos : \A j \in pos : i <= j
          IN [table_line EXCEPT !.usage_order =
                [table_line.usage_order EXCEPT
                   ![0] = found_index, ![p] = table_line.usage_order[0]]]

\* mark_used_by_address moving the record itself: the found slot and the
\* front slot exchange their contents
mark_used_by_address_swap(table_line, pc_plus_address) ==
  LET found_index == found_index_of(table_line, pc_plus_address)
      front == table_line.usage_order[0]
  IN IF found_index = NoSlot THEN table_line
     ELSE [table_line EXCEPT !.line =
             [table_line.line EXCEPT ![front] = table_line.line[found_index],
                                     ![found_index] = table_line.line[front]]]

mark_used_by_address(table_line, pc_plus_address) ==
  LET found_index == found_index_of(table_line, pc_plus_address)
      pos == {i \in 0 .. table_line.current_size - 1 :
                table_line.usage_order[i] = found_index}
  IN IF found_index = NoSlot \/ pos = {} THEN table_line
     ELSE LET p == CHOOSE i \in pos : \A j \in pos : i <= j
          IN [table_line EXCEPT !.usage_order =
                [i \in 0 .. LINE_ENTRIES - 1 |->
                   IF i = 0 THEN found_index
                   ELSE IF i <= p THEN table_line.usage_order[i - 1]
                   ELSE table_line.usage_order[i]]]

(***************************************************************************)
(* History-table search helpers: the slot found, NoSlot for NULL           *)
(***************************************************************************)
\* the slot at the first position of usage_order among `positions`
first_in_order(table_line, positions) ==
  IF positions = {} THEN NoSlot
  ELSE table_line.usage_order[CHOOSE i \in positions : \A j \in positions : i <= j]

\* the signature search comparing the pc_plus_address field, as its twin for
\* exact matches does
pref_bingo_find_event_to_fetch_copy(table_line, pc_plus_offset) ==
  IF hash_table_count(History_Table) = 0 THEN NoSlot
  ELSE first_in_order(table_line,
         {i \in 0 .. table_line.current_size - 1 :
            table_line.line[table_line.usage_order[i]].pc_plus_address
              = pc_plus_offset})

pref_bingo_find_event_to_fetch(table_line, pc_plus_offset) ==
  IF hash_table_count(History_Table) = 0 THEN NoSlot
  ELSE first_in_order(table_line,
         {i \in 0 .. table_line.current_size - 1 :
            table_line.line[table_line.usage_order[i]].pc_plus_offset
              = pc_plus_offset})

pref_bingo_find_event_to_fetch_addr(table_line, pc_plus_address) ==
  IF hash_table_count(History_Table) = 0 THEN NoSlot
  ELSE first_in_order(table_line,
         {i \in 0 .. table_line.current_size - 1 :
            table_line.line[table_line.usage_order[i]].pc_plus_address
              = pc_plus_address})

(***************************************************************************)
(* Prefetch emitter                                                        *)
(***************************************************************************)
RECURSIVE prefetch_from(_, _, _, _)
prefetch_from(i, footprint, proc_id, page_base) ==
  IF i >= NUM_BLOCKS THEN <<>>
  ELSE LET line_addr == page_base + Shl(i, BLOCK_SHIFT)
           line_index == ToUns(Shr(line_addr, LOG2(DCACHE_LINE_SIZE)))
           rest == prefetch_from(i + 1, footprint, proc_id, page_base)
       IN IF i \in footprint
          THEN <<[proc_id |-> proc_id, line_index |-> line_index]>> \o rest
          ELSE rest

\* pref_bingo_prefetch handing its two arguments to the request queue in the
\* wrong order
pref_bingo_prefetch_swapped(History_Entry, proc_id, page_address) ==
  LET reqs == prefetch_from(0, History_Entry.entry.footprint, proc_id,
                            bingo_get_page_base_from_number(page_address))
  IN [n \in 1 .. Len(reqs) |->
        [proc_id |-> reqs[n].line_index, line_index |-> reqs[n].proc_id]]

\* pref_bingo_prefetch taking the page base from the record's own trigger
\* address instead of the page number handed in
pref_bingo_prefetch_home(History_Entry, proc_id, page_address) ==
  prefetch_from(0, History_Entry.entry.footprint, proc_id,
                bingo_get_page_base_from_number(
                  bingo_get_page_number(History_Entry.entry.trigger_addr)))

pref_bingo_prefetch(History_Entry, proc_id, page_address) ==
  prefetch_from(0, History_Entry.entry.footprint, proc_id,
                bingo_get_page_base_from_number(page_address))

(***************************************************************************)
(* Footprint tracker: the update shared by hit and the learning miss       *)
(***************************************************************************)
\* the update creating a live record without setting the bit of the creating
\* access
aux_update_no_first_bit(lineAddr, loadPC) ==
  LET page_number == bingo_get_page_number(lineAddr)
      block_index == bingo_get_block_index(lineAddr)
  IN IF hash_table_present(Aux_Storage, page_number)
     THEN [Aux_Storage EXCEPT ![page_number].footprint = @ \cup {block_index}]
     ELSE hash_table_access_replace(Aux_Storage, page_number,
            [ZeroAux EXCEPT !.trigger_addr = lineAddr, !.pc = loadPC])

\* the update leaving an existing live record as it is (bit not set)
aux_update_skip_existing(lineAddr, loadPC) ==
  LET page_number == bingo_get_page_number(lineAddr)
      block_index == bingo_get_block_index(lineAddr)
  IN IF hash_table_present(Aux_Storage, page_number)
     THEN Aux_Storage
     ELSE hash_table_access_replace(Aux_Storage, page_number,
            [ZeroAux EXCEPT !.trigger_addr = lineAddr, !.pc = loadPC,
                            !.footprint = {block_index}])

\* the update always storing a fresh record, also over an existing one
aux_update_overwrite(lineAddr, loadPC) ==
  hash_table_access_replace(Aux_Storage, bingo_get_page_number(lineAddr),
    [ZeroAux EXCEPT !.trigger_addr = lineAddr, !.pc = loadPC,
                    !.footprint = {bingo_get_block_index(lineAddr)}])

aux_update(lineAddr, loadPC) ==
  LET page_number == bingo_get_page_number(lineAddr)
      block_index == bingo_get_block_index(lineAddr)
  IN IF hash_table_present(Aux_Storage, page_number)
     THEN [Aux_Storage EXCEPT ![page_number].footprint = @ \cup {block_index}]
     ELSE hash_table_access_replace(Aux_Storage, page_number,
            [ZeroAux EXCEPT !.trigger_addr = lineAddr, !.pc = loadPC,
                            !.footprint = {block_index}])

(***************************************************************************)
(* Callbacks                                                               *)
(***************************************************************************)
pref_bingo_ul1_hit(proc_id, lineAddr, loadPC) ==
  /\ Aux_Storage' = aux_update(lineAddr, loadPC)
  /\ ul1req' = <<>>
  /\ UNCHANGED History_Table

\* the commit signature built from the line-aligned address, as the lookup does
evict_pc_plus_offset_aligned(aux_entry, lineAddr) ==
  aux_entry.pc + Shl(Shr(lineAddr, BLOCK_SHIFT), BLOCK_SHIFT)

\* the two keys of the commit path
evict_pc_plus_offset(aux_entry, lineAddr) == aux_entry.pc + Shr(lineAddr, BLOCK_SHIFT)

evict_pc_plus_address(aux_entry, lineAddr) == aux_entry.pc + lineAddr

\* the eviction callback deleting the live record under the line index of the
\* evicted address instead of its page number
pref_bingo_ul1_cache_evict_delete_line(proc_id, lineAddr) ==
  LET page_number == bingo_get_page_number(lineAddr)
  IN /\ ul1req' = <<>>
     /\ IF ~hash_table_present(Aux_Storage, page_number)
        THEN UNCHANGED <<History_Table, Aux_Storage>>
        ELSE LET aux_entry == hash_table_access(Aux_Storage, page_number)
                 pc_plus_offset == evict_pc_plus_offset(aux_entry, lineAddr)
                 hist_entry ==
                   [pc_plus_address |-> evict_pc_plus_address(aux_entry, lineAddr),
                    pc_plus_offset |-> pc_plus_offset,
                    entry |-> aux_entry]
                 table_line ==
                   IF hash_table_present(History_Table, pc_plus_offset)
                   THEN hash_table_access(History_Table, pc_plus_offset)
                   ELSE ZeroLine
             IN /\ History_Table' =
                     hash_table_access_replace(History_Table, pc_plus_offset,
                                               add_entry(table_line, hist_entry))
                /\ Aux_Storage' =
                     hash_table_access_delete(Aux_Storage,
                                              Shr(lineAddr, BLOCK_SHIFT))

\* the eviction callback without the final hash_table_access_delete
pref_bingo_ul1_cache_evict_keep_aux(proc_id, lineAddr) ==
  LET page_number == bingo_get_page_number(lineAddr)
  IN /\ ul1req' = <<>>
     /\ UNCHANGED Aux_Storage
     /\ IF ~hash_table_present(Aux_Storage, page_number)
        THEN UNCHANGED History_Table
        ELSE LET aux_entry == hash_table_access(Aux_Storage, page_number)
                 pc_plus_offset == evict_pc_plus_offset(aux_entry, lineAddr)
                 hist_entry ==
                   [pc_plus_address |-> evict_pc_plus_address(aux_entry, lineAddr),
                    pc_plus_offset |-> pc_plus_offset,
                    entry |-> aux_entry]
                 table_line ==
                   IF hash_table_present(History_Table, pc_plus_offset)
                   THEN hash_table_access(History_Table, pc_plus_offset)
                   ELSE ZeroLine
             IN History_Table' =
                  hash_table_access_replace(History_Table, pc_plus_offset,
                                            add_entry(table_line, hist_entry))

pref_bingo_ul1_cache_evict(proc_id, lineAddr) ==
  LET page_number == bingo_get_page_number(lineAddr)
  IN /\ ul1req' = <<>>
     /\ IF ~hash_table_present(Aux_Storage, page_number)
        THEN UNCHANGED <<History_Table, Aux_Storage>>
        ELSE LET aux_entry == hash_table_access(Aux_Storage, page_number)
                 pc_plus_offset == evict_pc_plus_offset(aux_entry, lineAddr)
                 pc_plus_address == evict_pc_plus_address(aux_entry, lineAddr)
                 hist_entry == [pc_plus_address |-> pc_plus_address,
                                pc_plus_offset |-> pc_plus_offset,
                                entry |-> aux_entry]
                 table_line ==
                   IF hash_table_present(History_Table, pc_plus_offset)
                   THEN hash_table_access(History_Table, pc_plus_offset)
                   ELSE ZeroLine
             IN /\ History_Table' =
                     hash_table_access_replace(History_Table, pc_plus_offset,
                                               add_entry(table_line, hist_entry))
                /\ Aux_Storage' = hash_table_access_delete(Aux_Storage, page_number)

\* the two keys of the lookup path
miss_pc_plus_offset(lineAddr, loadPC) ==
  loadPC + Shl(Shr(lineAddr, BLOCK_SHIFT), BLOCK_SHIFT)

miss_pc_plus_address(lineAddr, loadPC) == loadPC + lineAddr

\* the selection without the exact search: most recent PC+Offset entry only
miss_select_recent(line, pc_plus_offset, pc_plus_address) ==
  pref_bingo_find_event_to_fetch(line, pc_plus_offset)

\* exact PC+Address first, then the most recent entry with the same PC+Offset
miss_select(line, pc_plus_offset, pc_plus_address) ==
  LET hash_entry == pref_bingo_find_event_to_fetch_addr(line, pc_plus_address)
  IN IF hash_entry = NoSlot
     THEN pref_bingo_find_event_to_fetch(line, pc_plus_offset)
     ELSE hash_entry

pref_bingo_ul1_miss(proc_id, lineAddr, loadPC) ==
  LET pc_plus_offset == miss_pc_plus_offset(lineAddr, loadPC)
      pc_plus_address == miss_pc_plus_address(lineAddr, loadPC)
      page_number == bingo_get_page_number(lineAddr)
  IN IF ~hash_table_present(History_Table, pc_plus_offset)
     THEN /\ Aux_Storage' = aux_update(lineAddr, loadPC)
          /\ ul1req' = <<>>
          /\ UNCHANGED History_Table
     ELSE LET line == hash_table_access(History_Table, pc_plus_offset)
              hash_entry == miss_select(line, pc_plus_offset, pc_plus_address)
          IN IF hash_entry # NoSlot
             THEN /\ ul1req' = pref_bingo_prefetch(line.line[hash_entry], proc_id,
                                                   page_number)
                  /\ History_Table' =
                       [History_Table EXCEPT ![pc_plus_offset] =
                          mark_used_by_address(line, pc_plus_address)]
                  /\ UNCHANGED Aux_Storage
             ELSE /\ Aux_Storage' = aux_update(lineAddr, loadPC)
                  /\ ul1req' = <<>>
                  /\ UNCHANGED History_Table

(***************************************************************************)
(* Bookkeeping of the observer: what the latest callback was and did       *)
(***************************************************************************)
Outcome(op, lineAddr, loadPC) ==
  LET page_number == bingo_get_page_number(lineAddr)
      live == hash_table_present(Aux_Storage, page_number)
      key == miss_pc_plus_offset(lineAddr, loadPC)
  IN CASE op = "hit" -> IF live THEN "update" ELSE "create"
       [] op = "evict" -> IF live THEN "commit" ELSE "noop"
       [] op = "miss" ->
            IF ~hash_table_present(History_Table, key) THEN "cold"
            ELSE IF miss_select(History_Table[key], key,
                                miss_pc_plus_address(lineAddr, loadPC)) # NoSlot
                 THEN "predict" ELSE "learn"

\* the bucket key the callback worked on (0 when it touched no bucket)
KeyOf(op, lineAddr, loadPC) ==
  LET page_number == bingo_get_page_number(lineAddr)
  IN CASE op = "hit" -> 0
       [] op = "evict" ->
            IF hash_table_present(Aux_Storage, page_number)
            THEN evict_pc_plus_offset(Aux_Storage[page_number], lineAddr)
            ELSE 0
       [] op = "miss" -> miss_pc_plus_offset(lineAddr, loadPC)

\* the slot written by a commit, or selected as the prediction source
SlotOf(op, lineAddr, loadPC) ==
  LET key == KeyOf(op, lineAddr, loadPC)
      out == Outcome(op, lineAddr, loadPC)
  IN CASE out = "commit" -> History_Table'[key].usage_order[0]
       [] out = "predict" ->
            miss_select(History_Table[key], key,
                        miss_pc_plus_address(lineAddr, loadPC))
       [] OTHER -> NoSlot

\* where the slot the miss promotes stood in the recency order before the miss
PosOf(op, lineAddr, loadPC) ==
  IF Outcome(op, lineAddr, loadPC) # "predict" THEN NoSlot
  ELSE LET b == History_Table[KeyOf(op, lineAddr, loadPC)]
           f == found_index_of(b, miss_pc_plus_address(lineAddr, loadPC))
       IN IF f = NoSlot THEN NoSlot
          ELSE CHOOSE i \in 0 .. b.current_size - 1 : b.usage_order[i] = f

(***************************************************************************)
(* The callbacks as functions of the stores, for the second run            *)
(***************************************************************************)
hit_on(st, proc_id, lineAddr, loadPC) ==
  LET page_number == bingo_get_page_number(lineAddr)
      block_index == bingo_get_block_index(lineAddr)
  IN [History_Table |-> st.History_Table,
      Aux_Storage |->
        IF hash_table_present(st.Aux_Storage, page_number)
        THEN [st.Aux_Storage EXCEPT ![page_number].footprint = @ \cup {block_index}]
        ELSE hash_table_access_replace(st.Aux_Storage, page_number,
               [ZeroAux EXCEPT !.trigger_addr = lineAddr, !.pc = loadPC,
                               !.footprint = {block_index}]),
      ul1req |-> <<>>]

evict_on(st, proc_id, lineAddr) ==
  LET page_number == bingo_get_page_number(lineAddr)
  IN IF ~hash_table_present(st.Aux_Storage, page_number)
     THEN [st EXCEPT !.ul1req = <<>>]
     ELSE LET aux_entry == hash_table_access(st.Aux_Storage, page_number)
              pc_plus_offset == evict_pc_plus_offset(aux_entry, lineAddr)
              hist_entry ==
                [pc_plus_address |-> evict_pc_plus_address(aux_entry, lineAddr),
                 pc_plus_offset |-> pc_plus_offset,
                 entry |-> aux_entry]
              table_line ==
                IF hash_table_present(st.History_Table, pc_plus_offset)
                THEN hash_table_access(st.History_Table, pc_plus_offset)
                ELSE ZeroLine
          IN [History_Table |->
                hash_table_access_replace(st.History_Table, pc_plus_offset,
                                          add_entry(table_line, hist_entry)),
              Aux_Storage |-> hash_table_access_delete(st.Aux_Storage, page_number),
              ul1req |-> <<>>]

\* both searches of the miss, on the stores of the second run
select_on(st, line, pc_plus_offset, pc_plus_address) ==
  IF hash_table_count(st.History_Table) = 0 THEN NoSlot
  ELSE LET exact == first_in_order(line,
                      {i \in 0 .. line.current_size - 1 :
                         line.line[line.usage_order[i]].pc_plus_address
                           = pc_plus_address})
       IN IF exact # NoSlot THEN exact
          ELSE first_in_order(line,
                 {i \in 0 .. line.current_size - 1 :
                    line.line[line.usage_order[i]].pc_plus_offset
                      = pc_plus_offset})

miss_on(st, proc_id, lineAddr, loadPC) ==
  LET pc_plus_offset == miss_pc_plus_offset(lineAddr, loadPC)
      pc_plus_address == miss_pc_plus_address(lineAddr, loadPC)
      page_number == bingo_get_page_number(lineAddr)
      learn == hit_on(st, proc_id, lineAddr, loadPC)
  IN IF ~hash_table_present(st.History_Table, pc_plus_offset) THEN learn
     ELSE LET line == hash_table_access(st.History_Table, pc_plus_offset)
              hash_entry == select_on(st, line, pc_plus_offset, pc_plus_address)
          IN IF hash_entry = NoSlot THEN learn
             ELSE [History_Table |->
                     [st.History_Table EXCEPT ![pc_plus_offset] =
                        mark_used_by_address(line, pc_plus_address)],
                   Aux_Storage |-> st.Aux_Storage,
                   ul1req |-> pref_bingo_prefetch(line.line[hash_entry], proc_id,
                                                  page_number)]

\* the second run takes the same callback with processor id q
TwinStep(op, q, lineAddr, loadPC) ==
  CASE op = "hit" -> hit_on(twin, q, lineAddr, loadPC)
    [] op = "evict" -> evict_on(twin, q, lineAddr)
    [] op = "miss" -> miss_on(twin, q, lineAddr, loadPC)

\* The scenario: from empty stores, a miss at X (block 0 of its page) by
\* instruction I, a hit at X+64, the eviction of line X, then a miss by I at
\* the same page offset in another page.  pos counts the steps matched so far.
NoScen == [pos |-> 0, X |-> 0, I |-> 0]

ScenStep(op, lineAddr, loadPC) ==
  CASE calls = 0 /\ op = "miss" /\ bingo_get_block_index(lineAddr) = 0 ->
         [pos |-> 1, X |-> lineAddr, I |-> loadPC]
    [] scen.pos = 1 /\ op = "hit" /\ lineAddr = scen.X + DCACHE_LINE_SIZE ->
         [scen EXCEPT !.pos = 2]
    [] scen.pos = 2 /\ op = "evict" /\ lineAddr = scen.X ->
         [scen EXCEPT !.pos = 3]
    [] scen.pos = 3 /\ op = "miss" /\ loadPC = scen.I
         /\ bingo_get_page_number(lineAddr) # bingo_get_page_number(scen.X)
         /\ lineAddr % PAGE_SIZE = scen.X % PAGE_SIZE ->
         [scen EXCEPT !.pos = 4]
    [] OTHER -> NoScen

ObserveRun(op, proc_id, lineAddr, loadPC) ==
  LET page_number == bingo_get_page_number(lineAddr)
      block_index == bingo_get_block_index(lineAddr)
      access == op \in {"hit", "miss"}
      learns == \/ op = "hit"
                \/ /\ op = "miss"
                   /\ miss_pc_plus_offset(lineAddr, loadPC) \notin DOMAIN History_Table
      grow(old, on) ==
        [p \in DOMAIN Aux_Storage' |->
           IF p = page_number /\ on
           THEN (IF p \in DOMAIN Aux_Storage THEN old[p] ELSE {}) \cup {block_index}
           ELSE IF p \in DOMAIN old THEN old[p] ELSE {}]
  IN /\ calls' = calls + 1
     /\ last' = [op |-> op, proc_id |-> proc_id, lineAddr |-> lineAddr,
                 loadPC |-> loadPC,
                 outcome |-> Outcome(op, lineAddr, loadPC),
                 key |-> KeyOf(op, lineAddr, loadPC),
                 slot |-> SlotOf(op, lineAddr, loadPC),
                 pos |-> PosOf(op, lineAddr, loadPC)]
     /\ epoch' =
          IF access
          THEN [p \in DOMAIN epoch \ {page_number} |-> epoch[p]]
          ELSE [p \in DOMAIN epoch \cup {page_number} |->
                  IF p # page_number THEN epoch[p]
                  ELSE IF p \in DOMAIN epoch
                       THEN [epoch[p] EXCEPT !.evictions = @ + 1]
                       ELSE [evictions |-> 1,
                             live |-> p \in DOMAIN Aux_Storage]]
     /\ observed' = grow(observed, access)
     /\ tracked' = grow(tracked, learns)
     /\ scen' = ScenStep(op, lineAddr, loadPC)

\* a callback of a single run: the second run and the wide evaluation stand still
Observe(op, proc_id, lineAddr, loadPC) ==
  /\ ObserveRun(op, proc_id, lineAddr, loadPC)
  /\ UNCHANGED <<twin, wide>>

\* a callback delivered to both runs, with processor id q in the second
ObservePair(op, proc_id, q, lineAddr, loadPC) ==
  /\ ObserveRun(op, proc_id, lineAddr, loadPC)
  /\ LET r == TwinStep(op, q, lineAddr, loadPC)
     IN twin' = [History_Table |-> r.History_Table,
                 Aux_Storage |-> r.Aux_Storage,
                 ul1req |-> r.ul1req,
                 proc_id |-> IF r.ul1req = <<>> THEN 0 ELSE q]
  /\ UNCHANGED wide

(***************************************************************************)
(* The host: any callback, any argument, one at a time                     *)
(***************************************************************************)
NoCall == [op |-> "init", proc_id |-> 0, lineAddr |-> 0, loadPC |-> 0,
           outcome |-> "none", key |-> 0, slot |-> NoSlot, pos |-> NoSlot]

NoTwin == [History_Table |-> <<>>, Aux_Storage |-> <<>>, ul1req |-> <<>>,
           proc_id |-> 0]

NoWide == [phase |-> "off"]

Init ==
  /\ History_Table = <<>>
  /\ Aux_Storage = <<>>
  /\ ul1req = <<>>
  /\ last = NoCall
  /\ calls = 0
  /\ epoch = <<>>
  /\ observed = <<>>
  /\ tracked = <<>>
  /\ scen = NoScen
  /\ twin = NoTwin
  /\ wide = NoWide

HitStep ==
  /\ calls < MaxCalls
  /\ \E proc_id \in Procs, acc \in Accesses :
       /\ pref_bingo_ul1_hit(proc_id, acc[1], acc[2])
       /\ Observe("hit", proc_id, acc[1], acc[2])

EvictStep ==
  /\ calls < MaxCalls
  /\ \E proc_id \in Procs, lineAddr \in Addrs :
       /\ pref_bingo_ul1_cache_evict(proc_id, lineAddr)
       /\ Observe("evict", proc_id, lineAddr, 0)

MissStep ==
  /\ calls < MaxCalls
  /\ \E proc_id \in Procs, acc \in Accesses :
       /\ pref_bingo_ul1_miss(proc_id, acc[1], acc[2])
       /\ Observe("miss", proc_id, acc[1], acc[2])

Next == HitStep \/ EvictStep \/ MissStep

Spec == Init /\ [][Next]_vars

(***************************************************************************)
(* Two runs side by side: the same callbacks with the same addresses and   *)
(* program counters, the processor ids chosen independently in each run    *)
(***************************************************************************)
PairHit ==
  /\ calls < MaxPair
  /\ \E proc_id \in Procs, q \in Procs, acc \in Accesses :
       /\ pref_bingo_ul1_hit(proc_id, acc[1], acc[2])
       /\ ObservePair("hit", proc_id, q, acc[1], acc[2])

PairEvict ==
  /\ calls < MaxPair
  /\ \E proc_id \in Procs, q \in Procs, lineAddr \in Addrs :
       /\ pref_bingo_ul1_cache_evict(proc_id, lineAddr)
       /\ ObservePair("evict", proc_id, q, lineAddr, 0)

PairMiss ==
  /\ calls < MaxPair
  /\ \E proc_id \in Procs, q \in Procs, acc \in Accesses :
       /\ pref_bingo_ul1_miss(proc_id, acc[1], acc[2])
       /\ ObservePair("miss", proc_id, q, acc[1], acc[2])

NextPair == PairHit \/ PairEvict \/ PairMiss

SpecPair == Init /\ [][NextPair]_vars

(***************************************************************************)
(* A host that fills one bucket: in round r it touches page 0 with an      *)
(* instruction of FillPCs (block 0 in even rounds, block 1 in odd ones),   *)
(* evicts line address r modulo LINE_ENTRIES + 1 of that page (so every    *)
(* commit lands in the bucket keyed by the instruction, with exact key     *)
(* instruction + address), then misses on one of FillMissAddrs.            *)
(***************************************************************************)
FillPCs == {8292}

FillAddrs == 0 .. LINE_ENTRIES

FillMissAddrs == {0, 1, 63}

FillHit ==
  /\ calls < 3 * MaxFill
  /\ calls % 3 = 0
  /\ \E lineAddr \in {0, DCACHE_LINE_SIZE}, loadPC \in FillPCs :
       /\ lineAddr = DCACHE_LINE_SIZE * ((calls \div 3) % 2)
       /\ pref_bingo_ul1_hit(0, lineAddr, loadPC)
       /\ Observe("hit", 0, lineAddr, loadPC)

FillEvict ==
  /\ calls % 3 = 1
  /\ \E lineAddr \in FillAddrs :
       /\ lineAddr = (calls \div 3) % Cardinality(FillAddrs)
       /\ pref_bingo_ul1_cache_evict(0, lineAddr)
       /\ Observe("evict", 0, lineAddr, 0)

FillMiss ==
  /\ calls % 3 = 2
  /\ \E proc_id \in Procs, lineAddr \in FillMissAddrs, loadPC \in FillPCs :
       /\ pref_bingo_ul1_miss(proc_id, lineAddr, loadPC)
       /\ Observe("miss", proc_id, lineAddr, loadPC)

NextFill == FillHit \/ FillEvict \/ FillMiss

SpecFill == Init /\ [][NextFill]_vars

(***************************************************************************)
(* Properties                                                              *)
(***************************************************************************)
Occupied(b) == 0 .. b.current_size - 1

LastPage == bingo_get_page_number(last.lineAddr)

\* C3: every History Bucket has 1 <= occupied_count <= 16 and the first
\* occupied_count entries of its recency array are a permutation of exactly
\* the slot indices 0 .. occupied_count-1.
C3_BucketStructure ==
  \A k \in DOMAIN History_Table :
    LET b == History_Table[k]
    IN /\ b.current_size \in 1 .. LINE_ENTRIES
       /\ {b.usage_order[i] : i \in Occupied(b)} = Occupied(b)
       /\ \A i, j \in Occupied(b) :
            b.usage_order[i] = b.usage_order[j] => i = j

\* a commit into a full bucket displaced a slot other than the first one
\* committed (promotions had reordered the bucket), and the bucket is intact
C3_Witness ==
  /\ last.outcome = "commit"
  /\ calls > 3 * LINE_ENTRIES
  /\ History_Table[last.key].current_size = LINE_ENTRIES
  /\ last.slot # 0

\* the record a commit of this step builds from the page's live record
CommitRecord ==
  LET aux_entry == Aux_Storage[bingo_get_page_number(last'.lineAddr)]
  IN [pc_plus_address |-> aux_entry.pc + last'.lineAddr,
      pc_plus_offset |-> aux_entry.pc + last'.lineAddr \div 64,
      entry |-> aux_entry]

CommitsIntoFull ==
  /\ last'.outcome = "commit"
  /\ last'.key \in DOMAIN History_Table
  /\ History_Table[last'.key].current_size = LINE_ENTRIES

HoldsExactKey(b, slots, key) ==
  \E s \in slots : b.line[s].pc_plus_address = key

LruDisplacement(b, c) ==
  LET lru == b.usage_order[LINE_ENTRIES - 1]
  IN /\ c.line[lru] = CommitRecord
     /\ \A s \in Occupied(b) \ {lru} : c.line[s] = b.line[s]
     /\ c.current_size = LINE_ENTRIES

\* C4 as claimed: a commit into a bucket that holds 16 records overwrites
\* exactly the slot last in the recency order, leaves the other 15 slots
\* unchanged, keeps occupied_count at 16, and afterwards no record of the
\* bucket is found by the displaced record's pc_plus_address.
C4_AsClaimed ==
  [][CommitsIntoFull =>
       LET b == History_Table[last'.key]
           c == History_Table'[last'.key]
           old == b.line[b.usage_order[LINE_ENTRIES - 1]]
       IN /\ LruDisplacement(b, c)
          /\ ~HoldsExactKey(c, Occupied(c), old.pc_plus_address)]_vars

\* C4 (amended): as above, but the displaced record's pc_plus_address finds
\* no record afterwards exactly when neither the newly committed record nor
\* one of the other 15 slots carries that same pc_plus_address.
C4_LruDisplacement ==
  [][CommitsIntoFull =>
       LET b == History_Table[last'.key]
           c == History_Table'[last'.key]
           lru == b.usage_order[LINE_ENTRIES - 1]
           old == b.line[lru]
       IN /\ LruDisplacement(b, c)
          /\ c.usage_order[0] = lru
          /\ ~HoldsExactKey(c, Occupied(c), old.pc_plus_address)
               <=> /\ CommitRecord.pc_plus_address # old.pc_plus_address
                   /\ ~HoldsExactKey(b, Occupied(b) \ {lru},
                                     old.pc_plus_address)]_vars

\* a commit has just displaced a record from a full bucket
C4_Witness ==
  /\ last.outcome = "commit"
  /\ calls > 3 * LINE_ENTRIES
  /\ History_Table[last.key].current_size = LINE_ENTRIES
  /\ History_Table[last.key].usage_order[0] = last.slot

\* C10: once a record is written into a bucket slot, no callback changes that
\* slot's keys or footprint and no callback removes it or its bucket; the
\* slot's contents change only by being overwritten as the least recently
\* used slot by a commit into a full bucket.
C10_CommittedImmutable ==
  [][\A k \in DOMAIN History_Table :
       /\ k \in DOMAIN History_Table'
       /\ History_Table'[k].current_size >= History_Table[k].current_size
       /\ \A s \in Occupied(History_Table[k]) :
            History_Table'[k].line[s] # History_Table[k].line[s]
              => /\ CommitsIntoFull
                 /\ last'.key = k
                 /\ s = History_Table[k].usage_order[LINE_ENTRIES - 1]]_vars

\* a miss in page 0 has just predicted, by exact match, from a record learned
\* on page 0, in a full bucket that has already displaced records
C10_Witness ==
  /\ last.outcome = "predict"
  /\ last.slot # NoSlot
  /\ calls > 3 * LINE_ENTRIES
  /\ History_Table[last.key].current_size = LINE_ENTRIES
  /\ History_Table[last.key].usage_order[0] = last.slot
  /\ History_Table[last.key].line[last.slot].pc_plus_address
       = last.loadPC + last.lineAddr
  /\ bingo_get_page_number(
       History_Table[last.key].line[last.slot].entry.trigger_addr) = LastPage

(***************************************************************************)
(* Properties of the general host                                          *)
(***************************************************************************)
\* block indices requested by the latest callback, relative to its page
RequestedBlocks ==
  {ul1req[n].line_index - LastPage * NUM_BLOCKS : n \in 1 .. Len(ul1req)}

\* the committed record the latest miss predicted from
Source == History_Table[last.key].line[last.slot]

\* C1 as claimed: from empty stores, after a miss at X by instruction I, a
\* hit at X+64 and the eviction of line X, a miss by I at the same page
\* offset in another page Q finds a signature match and emits exactly two
\* prefetch requests, for blocks 0 and 1 of Q.
C1_LearnThenPredict ==
  scen.pos = 4 =>
    /\ last.outcome = "predict"
    /\ ul1req = <<[proc_id |-> last.proc_id, line_index |-> LastPage * NUM_BLOCKS],
                  [proc_id |-> last.proc_id, line_index |-> LastPage * NUM_BLOCKS + 1]>>

RECURSIVE SumSizes(_, _)
SumSizes(table, keys) ==
  IF keys = {} THEN 0
  ELSE LET k == CHOOSE x \in keys : TRUE
       IN table[k].current_size + SumSizes(table, keys \ {k})

NumRecords(table) == SumSizes(table, DOMAIN table)

\* C2: of the eviction notifications a page receives with no hit or miss to
\* it in between, the first one, if the page has a live record, adds exactly
\* one committed record and deletes the live record; every later one finds no
\* live record and changes neither the History Store nor Aux Storage.
C2_SingleCommit ==
  [][last'.op = "evict" =>
       LET P == bingo_get_page_number(last'.lineAddr)
           first == P \notin DOMAIN epoch
           full == /\ last'.key \in DOMAIN History_Table
                   /\ History_Table[last'.key].current_size = LINE_ENTRIES
       IN /\ P \notin DOMAIN Aux_Storage'
          /\ first /\ P \in DOMAIN Aux_Storage =>
               /\ NumRecords(History_Table') =
                    NumRecords(History_Table) + (IF full THEN 0 ELSE 1)
               /\ History_Table'[last'.key].line[
                    History_Table'[last'.key].usage_order[0]] = CommitRecord
               /\ Aux_Storage' = [p \in DOMAIN Aux_Storage \ {P} |-> Aux_Storage[p]]
          /\ ~first =>
               /\ P \notin DOMAIN Aux_Storage
               /\ History_Table' = History_Table
               /\ Aux_Storage' = Aux_Storage]_vars

\* the page of the latest eviction had a live record at its first eviction
\* and has been evicted again, with no access to it in between
C2_Witness ==
  /\ last.op = "evict"
  /\ LastPage \in DOMAIN epoch
  /\ epoch[LastPage].live
  /\ epoch[LastPage].evictions >= 2

\* C5: on a miss whose bucket holds both a record with the miss's
\* pc_plus_address and a record matching on pc_plus_offset only, the
\* prefetches are emitted from the footprint of a record with the miss's
\* pc_plus_address.
C5_ExactPrecedence ==
  last.outcome = "predict" =>
    LET b == History_Table[last.key]
        exact == last.loadPC + last.lineAddr
    IN (/\ \E s \in Occupied(b) : b.line[s].pc_plus_address = exact
        /\ \E t \in Occupied(b) : /\ b.line[t].pc_plus_address # exact
                                 /\ b.line[t].pc_plus_offset = last.key)
       => /\ Source.pc_plus_address = exact
          /\ RequestedBlocks = Source.entry.footprint
          /\ Len(ul1req) = Cardinality(Source.entry.footprint)

\* a miss predicted from the exact-match record of a bucket that also holds
\* a signature-only record with another footprint, committed after it
C5_Witness ==
  /\ last.outcome = "predict"
  /\ Source.pc_plus_address = last.loadPC + last.lineAddr
  /\ \E t \in Occupied(History_Table[last.key]) :
       LET r == History_Table[last.key].line[t]
       IN /\ t > last.slot
          /\ r.pc_plus_address # last.loadPC + last.lineAddr
          /\ r.pc_plus_offset = last.key
          /\ r.entry.footprint # Source.entry.footprint

\* the page a committed record was learned on
LearnedOn(r) == bingo_get_page_number(r.entry.trigger_addr)

C7_SourcePromoted ==
  last.outcome = "predict" =>
    History_Table[last.key].usage_order[0] = last.slot

\* the miss predicted from one record and left another one, with another
\* footprint, at the front
C7_OtherRecordInFront ==
  /\ last.outcome = "predict"
  /\ History_Table[last.key].usage_order[0] # last.slot
  /\ History_Table[last.key].line[History_Table[last.key].usage_order[0]]
       .entry.footprint # Source.entry.footprint

AccessStep == last'.op \in {"hit", "miss"}

AccessLeavesLiveRecord ==
  LET P == bingo_get_page_number(last'.lineAddr)
  IN /\ P \in DOMAIN Aux_Storage'
     /\ bingo_get_block_index(last'.lineAddr) \in Aux_Storage'[P].footprint
     /\ P \notin DOMAIN Aux_Storage =>
          /\ Aux_Storage'[P].trigger_addr = last'.lineAddr
          /\ Aux_Storage'[P].pc = last'.loadPC

\* C8 as claimed: after every hit and every miss for an address in page P,
\* Aux Storage holds a live record for P with the accessed block's bit set,
\* and a record created by the access has its address and instruction
\* address as trigger.
C8_AsClaimed == [][AccessStep => AccessLeavesLiveRecord]_vars

\* C8 (amended): the same after every hit, and after every miss that finds
\* no History Bucket under its signature loadPC + line-aligned address.
C8_LiveRecord ==
  [][(\/ last'.op = "hit"
      \/ /\ last'.op = "miss"
         /\ last'.loadPC + (last'.lineAddr \div 64) * 64
              \notin DOMAIN History_Table)
     => AccessLeavesLiveRecord]_vars

\* a bucket-less miss has just created the live record of its page
C8_Witness ==
  /\ last.op = "miss"
  /\ last.outcome = "cold"
  /\ LastPage \in DOMAIN Aux_Storage
  /\ Aux_Storage[LastPage].trigger_addr = last.lineAddr
  /\ Aux_Storage[LastPage].pc = last.loadPC
  /\ History_Table # <<>>

LiveRecordKept ==
  \A P \in DOMAIN Aux_Storage \cap DOMAIN Aux_Storage' :
    /\ Aux_Storage[P].footprint \subseteq Aux_Storage'[P].footprint
    /\ Aux_Storage'[P].trigger_addr = Aux_Storage[P].trigger_addr
    /\ Aux_Storage'[P].pc = Aux_Storage[P].pc

\* C9 as claimed: while a live record exists no callback clears a footprint
\* bit or changes its trigger, and its set bits are the block indices of all
\* hits and misses to the page since the record was created.
C9_AsClaimed ==
  [][/\ LiveRecordKept
     /\ \A P \in DOMAIN Aux_Storage' :
          Aux_Storage'[P].footprint = observed'[P]]_vars

\* C9 (amended): as above, with the set bits being the block indices of the
\* hits, and of the misses that found no History Bucket under their
\* signature, to the page since the record was created.
C9_FootprintMonotone ==
  [][/\ LiveRecordKept
     /\ \A P \in DOMAIN Aux_Storage' :
          Aux_Storage'[P].footprint = tracked'[P]]_vars

\* a live record with two bits set, the second set by a later access
C9_Witness ==
  /\ last.op \in {"hit", "miss"}
  /\ LastPage \in DOMAIN Aux_Storage
  /\ Cardinality(Aux_Storage[LastPage].footprint) = 2
  /\ Aux_Storage[LastPage].trigger_addr # last.lineAddr
  /\ History_Table # <<>>

(***************************************************************************)
(* Commit, round trip, ordering                                            *)
(***************************************************************************)
\* C11: the eviction of address E for a page that has a live record L adds,
\* to the bucket keyed trigger_pc(L) + (E >> 6) (created if absent), a record
\* with pc_plus_offset = trigger_pc + (E >> 6), pc_plus_address =
\* trigger_pc + E and L's footprint; that record is the bucket's most
\* recently used afterwards and the page's live record is deleted.
C11_CommitResult ==
  [][LET E == last'.lineAddr
         P == bingo_get_page_number(E)
     IN (last'.op = "evict" /\ P \in DOMAIN Aux_Storage) =>
          LET L == Aux_Storage[P]
              k == L.pc + E \div DCACHE_LINE_SIZE
          IN /\ k \in DOMAIN History_Table'
             /\ LET c == History_Table'[k]
                    r == c.line[c.usage_order[0]]
                IN /\ r.pc_plus_offset = L.pc + E \div DCACHE_LINE_SIZE
                   /\ r.pc_plus_address = L.pc + E
                   /\ r.entry.footprint = L.footprint
                   /\ r.entry = L
                   /\ c.current_size =
                        IF k \notin DOMAIN History_Table THEN 1
                        ELSE IF History_Table[k].current_size < LINE_ENTRIES
                             THEN History_Table[k].current_size + 1
                             ELSE LINE_ENTRIES
             /\ P \notin DOMAIN Aux_Storage']_vars

\* an eviction at an address beyond the first line has just committed a
\* two-block footprint into a bucket that already held a record
C11_Witness ==
  /\ last.outcome = "commit"
  /\ last.lineAddr >= DCACHE_LINE_SIZE
  /\ History_Table[last.key].current_size >= 2
  /\ LastPage \notin DOMAIN Aux_Storage
  /\ LET c == History_Table[last.key]
     IN Cardinality(c.line[c.usage_order[0]].entry.footprint) = 2

\* C12: two runs that receive the same callbacks with the same addresses and
\* program counters and differ only in the processor ids reach identical
\* stores and emit prefetch requests for the same line indices; only the
\* processor id attached to each request differs, and it is the processor id
\* of the miss that triggered it.
C12_ProcIndependence ==
  /\ twin.History_Table = History_Table
  /\ twin.Aux_Storage = Aux_Storage
  /\ Len(twin.ul1req) = Len(ul1req)
  /\ \A n \in 1 .. Len(ul1req) :
       /\ twin.ul1req[n].line_index = ul1req[n].line_index
       /\ ul1req[n].proc_id = last.proc_id
       /\ twin.ul1req[n].proc_id = twin.proc_id

\* a miss has just predicted in both runs, from a record the runs committed,
\* under different processor ids
C12_Witness ==
  /\ last.outcome = "predict"
  /\ Len(ul1req) >= 1
  /\ twin.proc_id # last.proc_id
  /\ twin.ul1req # ul1req

\* C13: if a live record with trigger instruction I is committed by the
\* eviction of address A (and the record is still in the table), a later miss
\* from I at the same address A looks up the bucket the record was committed
\* into and finds it by exact match: the signature key the miss computes for
\* (I, A) is the signature key the commit computed.
C13_RoundTrip ==
  last.op = "miss" =>
    \A k \in DOMAIN History_Table :
      \A s \in Occupied(History_Table[k]) :
        LET r == History_Table[k].line[s]
            I == r.entry.pc
            A == last.lineAddr
        IN (/\ I = last.loadPC
            /\ r.pc_plus_address = I + A
            /\ r.pc_plus_offset = I + A \div DCACHE_LINE_SIZE)
             => /\ last.key = k
                /\ last.outcome = "predict"
                /\ Source.pc_plus_address = last.loadPC + last.lineAddr

\* the bucket c is the bucket b with the slot at position i moved to the
\* front of the recency order and nothing else changed
MovedToFront(b, c, i) ==
  /\ c.line = b.line
  /\ c.current_size = b.current_size
  /\ c.usage_order[0] = b.usage_order[i]
  /\ \A j \in 1 .. LINE_ENTRIES - 1 :
       c.usage_order[j] = IF j <= i THEN b.usage_order[j - 1]
                          ELSE b.usage_order[j]

\* C14: promoting an occupied slot that sits at position i of the recency
\* order puts it at position 0, shifts the slots of positions 0..i-1 to
\* positions 1..i in the same relative order, leaves the later positions,
\* every slot's contents and occupied_count unchanged; a promotion by a key
\* no occupied slot holds leaves the bucket unchanged; the next commit into
\* the full bucket displaces the slot that is at the back after promotion.
C14_PromoteOrdering ==
  [][/\ (last'.op = "miss" /\ last'.key \in DOMAIN History_Table) =>
          LET b == History_Table[last'.key]
              c == History_Table'[last'.key]
              key == last'.loadPC + last'.lineAddr
          IN IF HoldsExactKey(b, Occupied(b), key)
             THEN \E i \in Occupied(b) :
                    /\ b.line[b.usage_order[i]].pc_plus_address = key
                    /\ MovedToFront(b, c, i)
             ELSE c = b
     /\ CommitsIntoFull =>
          LET b == History_Table[last'.key]
              c == History_Table'[last'.key]
              back == b.usage_order[LINE_ENTRIES - 1]
          IN /\ c.line[back] = CommitRecord
             /\ \A s \in Occupied(b) \ {back} : c.line[s] = b.line[s]]_vars

\* a miss has just promoted, in a full bucket, a slot that stood at the third
\* position or later
C14_Witness ==
  /\ last.outcome = "predict"
  /\ last.pos >= 2
  /\ History_Table[last.key].current_size = LINE_ENTRIES
  /\ History_Table[last.key].usage_order[0] # History_Table[last.key].usage_order[1]

\* C15: a commit into a bucket with occupied_count = n < 16 (n = 0 for a
\* bucket created by the commit) writes the new record into slot n, makes
\* occupied_count n + 1, puts slot n at the front of the recency order and
\* keeps the previous n slots in their relative order at positions 1..n with
\* their contents unchanged.
C15_InsertOrdering ==
  [][last'.outcome = "commit" =>
       LET k == last'.key
           b == IF k \in DOMAIN History_Table THEN History_Table[k] ELSE ZeroLine
           c == History_Table'[k]
           n == b.current_size
       IN n < LINE_ENTRIES =>
            /\ c.line[n] = CommitRecord
            /\ c.current_size = n + 1
            /\ c.usage_order[0] = n
            /\ \A j \in 1 .. n : c.usage_order[j] = b.usage_order[j - 1]
            /\ \A s \in 0 .. n - 1 : c.line[s] = b.line[s]]_vars

\* a commit has just added a slot to a bucket below capacity whose earlier
\* slots had been reordered by promotions
C15_Witness ==
  /\ last.outcome = "commit"
  /\ History_Table[last.key].current_size \in 4 .. LINE_ENTRIES - 1
  /\ History_Table[last.key].usage_order[0]
       = History_Table[last.key].current_size - 1
  /\ History_Table[last.key].usage_order[1]
       < History_Table[last.key].usage_order[2]

(***************************************************************************)
(* Ties, frames and the two implicit properties                            *)
(***************************************************************************)
\* occupied slots of bucket b holding the exact key
SlotsWithKey(b, key) == {s \in Occupied(b) : b.line[s].pc_plus_address = key}

\* position of occupied slot s in the recency order of bucket b
PositionOf(b, s) == CHOOSE i \in Occupied(b) : b.usage_order[i] = s

\* C16 as claimed: no History Bucket holds two occupied slots with the same
\* pc_plus_address (so the exact-match search and the promotion step refer
\* to the same single slot).
C16_AsClaimed ==
  \A k \in DOMAIN History_Table :
    \A s, t \in Occupied(History_Table[k]) :
      History_Table[k].line[s].pc_plus_address
        = History_Table[k].line[t].pc_plus_address => s = t

\* C16 (amended): a commit adds its record without looking for a slot with
\* the same pc_plus_address, so a bucket can hold several; among them the
\* exact-match search returns the one earliest in the recency order and the
\* promotion step moves the one with the lowest slot index, which are the
\* same slot whenever only one occupied slot holds the key.
C16_TiesResolved ==
  [][/\ last'.outcome = "predict" =>
          LET b == History_Table[last'.key]
              c == History_Table'[last'.key]
              xs == SlotsWithKey(b, last'.loadPC + last'.lineAddr)
          IN xs # {} =>
               /\ last'.slot \in xs
               /\ \A x \in xs : PositionOf(b, last'.slot) <= PositionOf(b, x)
               /\ c.usage_order[0] \in xs
               /\ \A x \in xs : c.usage_order[0] <= x
               /\ Cardinality(xs) = 1 => c.usage_order[0] = last'.slot
     /\ (last'.outcome = "commit" /\ ~CommitsIntoFull) =>
          LET k == last'.key
              b == IF k \in DOMAIN History_Table THEN History_Table[k] ELSE ZeroLine
              c == History_Table'[k]
          IN Cardinality(SlotsWithKey(c, CommitRecord.pc_plus_address))
               = Cardinality(SlotsWithKey(b, CommitRecord.pc_plus_address)) + 1]_vars

\* a miss has just predicted by exact match from a bucket in which two
\* occupied slots hold the miss's pc_plus_address
C16_Witness ==
  /\ last.outcome = "predict"
  /\ last.slot \in SlotsWithKey(History_Table[last.key],
                                last.loadPC + last.lineAddr)
  /\ Cardinality(SlotsWithKey(History_Table[last.key],
                              last.loadPC + last.lineAddr)) >= 2

\* the store after the step agrees with the store before it on every key
\* outside `keys`
SameOutside(old, new, keys) ==
  /\ DOMAIN old \ keys = DOMAIN new \ keys
  /\ \A x \in DOMAIN old \ keys : new[x] = old[x]

\* C17: a hit changes at most the single Aux Store entry of the accessed
\* page, never changes the History Store and never emits a prefetch; an
\* eviction never emits a prefetch and changes no Aux Store entry other than
\* the evicted line's page's and no History Bucket other than the one keyed
\* by the computed signature.
C17_Frame ==
  [][LET P == bingo_get_page_number(last'.lineAddr)
     IN /\ last'.op = "hit" =>
             /\ SameOutside(Aux_Storage, Aux_Storage', {P})
             /\ History_Table' = History_Table
             /\ ul1req' = <<>>
        /\ last'.op = "evict" =>
             /\ ul1req' = <<>>
             /\ SameOutside(Aux_Storage, Aux_Storage', {P})
             /\ IF P \in DOMAIN Aux_Storage
                THEN SameOutside(History_Table, History_Table',
                       {Aux_Storage[P].pc
                          + last'.lineAddr \div DCACHE_LINE_SIZE})
                ELSE History_Table' = History_Table]_vars

\* an eviction has just committed while another page had a live record and
\* another bucket held records
C17_Witness ==
  /\ last.outcome = "commit"
  /\ DOMAIN Aux_Storage # {}
  /\ DOMAIN History_Table \ {last.key} # {}

\* C18: every record stored in the bucket keyed K has pc_plus_offset = K, so
\* whenever a miss finds a bucket the signature-only search succeeds
\* (returning the most recently used record when no exact match exists), at
\* least one prefetch is emitted, the learning branch is not taken and the
\* Aux Store is unchanged.
C18_AlwaysPredicts ==
  [][/\ \A k \in DOMAIN History_Table' :
          \A s \in Occupied(History_Table'[k]) :
            History_Table'[k].line[s].pc_plus_offset = k
     /\ (last'.op = "miss" /\ last'.key \in DOMAIN History_Table) =>
          LET b == History_Table[last'.key]
          IN /\ pref_bingo_find_event_to_fetch(b, last'.key) = b.usage_order[0]
             /\ SlotsWithKey(b, last'.loadPC + last'.lineAddr) = {}
                  => last'.slot = b.usage_order[0]
             /\ last'.outcome = "predict"
             /\ Len(ul1req') >= 1
             /\ Aux_Storage' = Aux_Storage]_vars

\* a miss has just predicted by signature only, from the most recently used
\* of two records of its bucket
C18_Witness ==
  /\ last.outcome = "predict"
  /\ SlotsWithKey(History_Table[last.key], last.loadPC + last.lineAddr) = {}
  /\ History_Table[last.key].current_size >= 2
  /\ last.slot = History_Table[last.key].usage_order[0]
  /\ Len(ul1req) >= 1

\* C19: every live and every committed record's footprint has at least one
\* bit set, the block index of the access that created the live record; a
\* miss that selects a record emits exactly one request per set bit of its
\* footprint, in ascending block order, between 1 and 64 requests.
C19_FootprintNonEmpty ==
  /\ \A P \in DOMAIN Aux_Storage :
       bingo_get_block_index(Aux_Storage[P].trigger_addr)
         \in Aux_Storage[P].footprint
  /\ \A k \in DOMAIN History_Table :
       \A s \in Occupied(History_Table[k]) :
         LET e == History_Table[k].line[s].entry
         IN bingo_get_block_index(e.trigger_addr) \in e.footprint
  /\ last.outcome = "predict" =>
       /\ Len(ul1req) = Cardinality(Source.entry.footprint)
       /\ Len(ul1req) \in 1 .. NUM_BLOCKS
       /\ RequestedBlocks = Source.entry.footprint
       /\ \A n, m \in 1 .. Len(ul1req) :
            n < m => ul1req[n].line_index < ul1req[m].line_index

\* a miss has just emitted two requests, from a record with two bits set,
\* while a page had a live record
C19_Witness ==
  /\ last.outcome = "predict"
  /\ Len(ul1req) = 2
  /\ Cardinality(Source.entry.footprint) = 2
  /\ DOMAIN Aux_Storage # {}

(***************************************************************************)
(* The emitter's arithmetic at full width.  An Addr is 64 bits wide, held  *)
(* as four 16-bit limbs, least significant first; an uns is 32 bits wide.  *)
(***************************************************************************)
Limb == 2 ^ 16

Limbs == 0 .. 3

FromInt(n) == [k \in Limbs |-> IF k = 0 THEN n ELSE 0]

\* x >> n and x << n on Addr, 0 < n < 16; the left shift drops what leaves
\* the 64 bits
ShrA(x, n) ==
  [k \in Limbs |->
     (x[k] \div (2 ^ n)) + (IF k < 3 THEN (x[k + 1] % (2 ^ n)) * (2 ^ (16 - n)) ELSE 0)]

ShlA(x, n) ==
  [k \in Limbs |->
     ((x[k] * (2 ^ n)) % Limb) + (IF k > 0 THEN x[k - 1] \div (2 ^ (16 - n)) ELSE 0)]

\* carry into limb k of x + y
RECURSIVE CarryA(_, _, _)
CarryA(x, y, k) ==
  IF k = 0 THEN 0 ELSE (x[k - 1] + y[k - 1] + CarryA(x, y, k - 1)) \div Limb

\* x + y on Addr, modulo 2^64
AddA(x, y) == [k \in Limbs |-> (x[k] + y[k] + CarryA(x, y, k)) % Limb]

\* (uns) x: the low 32 bits
CastUns(x) == [k \in Limbs |-> IF k < 2 THEN x[k] ELSE 0]

bingo_get_page_number_wide(addr) == ShrA(addr, PAGE_SHIFT)

bingo_get_page_base_from_number_wide(page_num) == ShlA(page_num, PAGE_SHIFT)

\* the line index pref_bingo_prefetch hands to the request queue for bit i,
\* called by the miss at lineAddr with page_number = lineAddr >> 12
line_index_wide(lineAddr, i) ==
  LET page_address == bingo_get_page_number_wide(lineAddr)
      page_base == bingo_get_page_base_from_number_wide(page_address)
      line_addr == AddA(page_base, ShlA(FromInt(i), BLOCK_SHIFT))
  IN CastUns(ShrA(line_addr, LOG2(DCACHE_LINE_SIZE)))

\* page_number * 64 + i, which needs at most 58 bits
ExactLineIndex(lineAddr, i) ==
  AddA(ShlA(bingo_get_page_number_wide(lineAddr), BLOCK_SHIFT), FromInt(i))

\* miss addresses, limb by limb: around the page and line boundaries, around
\* 2^32 and 2^38, and up to the top of the address space
WideAddrs ==
  {<<a0, a1, a2, a3>> : a0 \in {0, 4160, Limb - 1}, a1 \in {0, 1, Limb - 1},
                        a2 \in {0, 63, 64, Limb - 1},
                        a3 \in {0, 1, Limb \div 2, Limb - 1}}

WideBits == {0, 1, NUM_BLOCKS - 1}

ToAddr(s) == [k \in Limbs |-> s[k + 1]]

InitIndex ==
  /\ History_Table = <<>>
  /\ Aux_Storage = <<>>
  /\ ul1req = <<>>
  /\ last = NoCall
  /\ calls = 0
  /\ epoch = <<>>
  /\ observed = <<>>
  /\ tracked = <<>>
  /\ scen = NoScen
  /\ twin = NoTwin
  /\ wide \in {[phase |-> "in", lineAddr |-> ToAddr(a), i |-> i,
                line_index |-> FromInt(0)] : a \in WideAddrs, i \in WideBits}

\* one pass of the emitter's loop body for a set bit i
EmitIndex ==
  /\ wide.phase = "in"
  /\ wide' = [wide EXCEPT !.phase = "out",
                          !.line_index = line_index_wide(wide.lineAddr, wide.i)]
  /\ UNCHANGED <<History_Table, Aux_Storage, ul1req, last, calls, epoch,
                 observed, tracked, scen, twin>>

NextIndex == EmitIndex

SpecIndex == InitIndex /\ [][NextIndex]_vars

\* C20: for every 64-bit miss address and every set footprint bit i, the
\* line index handed to the request queue equals page_number * 64 + i, with
\* no loss of high-order bits.
C20_ExactLineIndex ==
  wide.phase = "out" =>
    wide.line_index = ExactLineIndex(wide.lineAddr, wide.i)

\* the same for miss addresses below 2^38, where the line index fits 32 bits
C20_ExactBelow ==
  (wide.phase = "out" /\ wide.lineAddr[3] = 0 /\ wide.lineAddr[2] < 64) =>
    wide.line_index = ExactLineIndex(wide.lineAddr, wide.i)

====
